---- MODULE Spec2Model ----
(***************************************************************************)
(* Model of p2p/simulations/journal.go: the Journal (a lock-protected,     *)
(* cursor-trimmed buffer filled by one background goroutine from an        *)
(* event.TypeMux subscription) together with its callers.                  *)
(*                                                                         *)
(* Every caller operation is split at the points where the Go scheduler    *)
(* can interleave another goroutine: acquiring self.lock, each iteration   *)
(* of Read's loop, and the body that ends with the deferred Unlock.        *)
(***************************************************************************)
EXTENDS Integers, Sequences, FiniteSets, Bags, TLC

\* ---- bounds ----
MaxPosts == 2          \* number of Post calls made on the event source
ScenarioNodes == 3     \* Node events posted in the end-to-end scenario
ScenarioConns == 2     \* Conn events posted in the end-to-end scenario
MaxTicks == 1          \* index of the last tick MockNetwork is driven for
MaxRequests == 3       \* requests made on the rpcBackend in one run

\* RandomNodeIDs(100)
PoolSize == 100
\* the ids of the pool that are followed one by one, in the order
\* bytes.Compare gives them; the other PoolSize - 2 ids are only counted
KnownIds == {1, 2}
\* stands for any id of the pool that is not in KnownIds
Other == 0

Types   == {"Node", "Conn"}
\* the type lists NewJournal is called with: one type, or both
SubChoices == {{"Node"}, Types}
Callers == {"c1", "c2"}
\* the arguments Reset is called with: negative, zero, beyond any buffer
ResetArgs == {-1, 0, MaxPosts + 1}
\* the arguments WaitEntries is called with: nothing to wait for, one entry,
\* more entries than are ever posted
WaitArgs == {0, 1, MaxPosts + 1}
NoEvent == [id |-> 0, type |-> "none"]
NoOwner == "free"

VARIABLES
    \* event.TypeMux subscription (external collaborator)
    subscribed,     \* NewJournal has run: self.sub exists
    subTypes,       \* the types passed to Subscribe
    closed,         \* Unsubscribe has run: sub.Chan() is closed
    chan,           \* the send pending on the unbuffered subscription channel
    nposted,        \* number of Post calls so far
    sent,           \* ids of the events sent on the subscription channel
    closeReturned,  \* Journal.Close has been called and has returned
    late,           \* ids of the events posted after Close returned
    dropped,        \* ids of the events whose send Close interrupted
    posts,          \* the types of the events posted in the end-to-end scenario
    \* Journal fields
    lock,           \* self.lock: NoOwner, "writer" or a caller
    counter,        \* self.counter
    cursor,         \* self.cursor
    events,         \* self.events
    \* the goroutine started by NewJournal, running Write
    wpc,            \* "none", "recv", "lock", "append", "done"
    ev,             \* Write's local ev
    writers,        \* number of Write goroutines ever started
    \* callers
    pc,             \* position of each caller
    read,           \* Read's local read
    arg,            \* the argument n of the running Reset / WaitEntries
    ret,            \* the value the running call is about to return
    \* history
    appended,       \* every entry ever appended, in append order
    consumed,       \* every entry a predicate returned true on, in call order
    rejected,       \* the entry of the last predicate call, if it returned false
    scan,           \* per caller: what its running Read saw
    lenAtClose,     \* Len(appended) when Close first returned
    evAtClose,      \* the event Write held, not yet appended, at that moment
    \* MockNetwork
    mpc,            \* position: "wait" (for a tick), "nodeOn", "nodeOff",
                    \* "connOn", "connOff" (the four loops), "panic"
    tick,           \* n, the index of the tick
    ds,             \* ds, the deltas of the running tick
    loopi,          \* i, the counter of the running loop
    onNodes,        \* onNodes: the known ids in the slice, and how many others
    offNodes,       \* offNodes: the known ids in the slice, and how many others
    onConns,        \* onConns: the bag of known pairs in the slice, and how
                    \* many connections with another id
    lastPost,       \* the event of the last successful eventer.Post
    cnt,            \* the number of events posted in the running tick, by kind
    \* rpcBackend and its callers
    rbLock,         \* backend.lock: NoOwner or a caller
    autoid,         \* backend.autoid, a uint32 kept as two 16-bit halves
    intBits,        \* the size of int in the build: 32 or 64
    rqbase,         \* the number of requests made before the run starts
    rq,             \* per caller: position, req.Id, res, return value
    ids,            \* the req.Id of every request assembled, in order
    wire            \* the Send and Recv calls made on backend.client, in order

subVars     == <<subscribed, subTypes, closed, chan, nposted, sent,
                 closeReturned, late, dropped, posts>>
journalVars == <<lock, counter, cursor, events>>
writerVars  == <<wpc, ev, writers>>
callerVars  == <<pc, read, arg, ret>>
histVars    == <<appended, consumed, rejected, scan, lenAtClose, evAtClose>>
netVars     == <<mpc, tick, ds, loopi, onNodes, offNodes, onConns, lastPost, cnt>>
rpcVars     == <<rbLock, autoid, intBits, rqbase, rq, ids, wire>>
vars == <<subVars, journalVars, writerVars, callerVars, histVars, netVars, rpcVars>>

NoScan == [start |-> <<>>, calls |-> 0, sawFalse |-> FALSE, afterClose |-> FALSE]
NoRet  == [op |-> "none", val |-> 0]

\* the unread part of the buffer, self.events[self.cursor:]
Unread(evs, cur) == SubSeq(evs, cur + 1, Len(evs))

\* len(self.events) - self.cursor
Backlog == Len(events) - cursor

\* no Journal yet
JournalInit ==
    /\ subscribed = FALSE
    /\ subTypes = {}
    /\ closed = FALSE
    /\ chan = <<>>
    /\ nposted = 0
    /\ sent = {}
    /\ closeReturned = FALSE
    /\ late = {}
    /\ dropped = {}
    /\ posts = <<>>
    /\ lock = NoOwner
    /\ counter = 0
    /\ cursor = 0
    /\ events = <<>>
    /\ wpc = "none"
    /\ ev = NoEvent
    /\ writers = 0
    /\ pc = [c \in Callers |-> "idle"]
    /\ read = [c \in Callers |-> 0]
    /\ arg = [c \in Callers |-> 0]
    /\ ret = [c \in Callers |-> NoRet]
    /\ appended = <<>>
    /\ consumed = <<>>
    /\ rejected = NoEvent
    /\ scan = [c \in Callers |-> NoScan]
    /\ lenAtClose = 0
    /\ evAtClose = NoEvent

NoDeltas == <<[On |-> 0, Off |-> 0], [On |-> 0, Off |-> 0]>>
NoPost   == [type |-> "none", action |-> "none", obj |-> <<>>]
NoCount  == [nodeOn |-> 0, nodeOff |-> 0, connOn |-> 0, connOff |-> 0]
\* an empty slice of nodes, an empty slice of connections
NoNodes  == [known |-> {}, others |-> 0]
NoConns  == [known |-> EmptyBag, others |-> 0]

\* MockNetwork is not running
NetOff ==
    /\ mpc = "off"
    /\ tick = 0
    /\ ds = NoDeltas
    /\ loopi = 0
    /\ onNodes = NoNodes
    /\ offNodes = NoNodes
    /\ onConns = NoConns
    /\ lastPost = NoPost
    /\ cnt = NoCount

\* a uint32 (or a count of requests) as hi * 2^16 + lo
Half == 65536
Zero32 == [hi |-> 0, lo |-> 0]
NoResponse == [error |-> "", result |-> ""]
NoReturn   == [result |-> "nil", err |-> "nil"]
NoRequest  == [pc |-> "idle", id |-> Zero32, res |-> NoResponse, out |-> NoReturn]

\* no rpcBackend in use
RpcOff ==
    /\ rbLock = NoOwner
    /\ autoid = Zero32
    /\ intBits = 64
    /\ rqbase = Zero32
    /\ rq = [c \in Callers |-> NoRequest]
    /\ ids = <<>>
    /\ wire = <<>>

Init == JournalInit /\ NetOff /\ RpcOff

\* ---- NewJournal / Close -------------------------------------------------

\* NewJournal that subscribes to every type, whatever it is given
NewJournalAllTypes(types) ==
    /\ ~subscribed
    /\ subscribed' = TRUE
    /\ subTypes' = Types
    /\ wpc' = "recv"
    /\ writers' = writers + 1
    /\ UNCHANGED <<closed, chan, nposted, sent, closeReturned, late, dropped, ev>>
    /\ UNCHANGED <<journalVars, callerVars, histVars>>
    /\ UNCHANGED posts
    /\ UNCHANGED <<netVars, rpcVars>>

\* NewJournal: subscribe, then start the one goroutine running Write
NewJournal(types) ==
    /\ ~subscribed
    /\ subscribed' = TRUE
    /\ subTypes' = types
    /\ wpc' = "recv"
    /\ writers' = writers + 1
    /\ UNCHANGED <<closed, chan, nposted, sent, closeReturned, late, dropped, ev>>
    /\ UNCHANGED <<journalVars, callerVars, histVars>>
    /\ UNCHANGED posts
    /\ UNCHANGED <<netVars, rpcVars>>

\* eventer.Post of an event of type t.  The subscription channel is
\* unbuffered: a matching event waits in chan until Write receives it; an
\* event of another type, or one posted without a live subscription, is not
\* delivered.
Deliver(t) ==
    /\ nposted' = nposted + 1
    /\ IF subscribed /\ ~closed /\ t \in subTypes
       THEN /\ chan = <<>>
            /\ chan' = <<[id |-> nposted + 1, type |-> t]>>
            /\ sent' = sent \cup {nposted + 1}
       ELSE UNCHANGED <<chan, sent>>
    /\ late' = IF closeReturned THEN late \cup {nposted + 1} ELSE late
    /\ UNCHANGED <<subscribed, subTypes, closed, closeReturned, dropped>>
    /\ UNCHANGED <<journalVars, writerVars, callerVars, histVars>>

\* one of the MaxPosts calls of eventer.Post
Post(t) ==
    /\ nposted < MaxPosts
    /\ Deliver(t)
    /\ UNCHANGED posts
    /\ UNCHANGED <<netVars, rpcVars>>

\* Subscription.Unsubscribe: closes the channel; a send still pending on it
\* is abandoned
Unsubscribe ==
    /\ closed' = TRUE
    /\ chan' = <<>>
    /\ dropped' = dropped \cup {chan[i].id : i \in 1..Len(chan)}

\* Close that returns without unsubscribing
CloseNoUnsubscribe(c) ==
    /\ subscribed
    /\ pc[c] = "idle"
    /\ closeReturned' = TRUE
    /\ lenAtClose' = IF closeReturned THEN lenAtClose ELSE Len(appended)
    /\ evAtClose' = IF closeReturned THEN evAtClose
                    ELSE IF wpc \in {"lock", "append"} THEN ev ELSE NoEvent
    /\ UNCHANGED <<subscribed, subTypes, closed, chan, nposted, sent, late, dropped>>
    /\ UNCHANGED <<journalVars, writerVars, callerVars>>
    /\ UNCHANGED <<appended, consumed, rejected, scan>>
    /\ UNCHANGED posts
    /\ UNCHANGED <<netVars, rpcVars>>

\* Close that also throws the buffer away
CloseDiscards(c) ==
    /\ subscribed
    /\ pc[c] = "idle"
    /\ Unsubscribe
    /\ closeReturned' = TRUE
    /\ lenAtClose' = IF closeReturned THEN lenAtClose ELSE Len(appended)
    /\ evAtClose' = IF closeReturned THEN evAtClose
                    ELSE IF wpc \in {"lock", "append"} THEN ev ELSE NoEvent
    /\ events' = <<>>
    /\ UNCHANGED <<subscribed, subTypes, nposted, sent, late>>
    /\ UNCHANGED <<lock, counter, cursor, writerVars, callerVars>>
    /\ UNCHANGED <<appended, consumed, rejected, scan>>
    /\ UNCHANGED posts
    /\ UNCHANGED <<netVars, rpcVars>>

\* Journal.Close
Close(c) ==
    /\ subscribed
    /\ pc[c] = "idle"
    /\ Unsubscribe
    /\ closeReturned' = TRUE
    /\ lenAtClose' = IF closeReturned THEN lenAtClose ELSE Len(appended)
    /\ evAtClose' = IF closeReturned THEN evAtClose
                    ELSE IF wpc \in {"lock", "append"} THEN ev ELSE NoEvent
    /\ UNCHANGED <<subscribed, subTypes, nposted, sent, late>>
    /\ UNCHANGED <<journalVars, writerVars, callerVars>>
    /\ UNCHANGED <<appended, consumed, rejected, scan>>
    /\ UNCHANGED posts
    /\ UNCHANGED <<netVars, rpcVars>>

\* ---- Write / append -----------------------------------------------------

\* Write that goes on selecting on a closed channel instead of returning
WriteRecvNoReturn ==
    /\ wpc = "recv"
    /\ chan # <<>>
    /\ ev' = Head(chan)
    /\ chan' = Tail(chan)
    /\ wpc' = "lock"
    /\ UNCHANGED <<subscribed, subTypes, closed, nposted, sent, closeReturned, late,
                   dropped, writers>>
    /\ UNCHANGED <<journalVars, callerVars, histVars>>
    /\ UNCHANGED posts
    /\ UNCHANGED <<netVars, rpcVars>>

\* case ev, ok := <-self.sub.Chan(); if !ok { return }
WriteRecv ==
    /\ wpc = "recv"
    /\ IF chan # <<>>
       THEN /\ ev' = Head(chan)
            /\ chan' = Tail(chan)
            /\ wpc' = "lock"
       ELSE /\ closed
            /\ wpc' = "done"
            /\ UNCHANGED <<ev, chan>>
    /\ UNCHANGED <<subscribed, subTypes, closed, nposted, sent, closeReturned, late,
                   dropped, writers>>
    /\ UNCHANGED <<journalVars, callerVars, histVars>>
    /\ UNCHANGED posts
    /\ UNCHANGED <<netVars, rpcVars>>

\* append that goes ahead without waiting for the lock
WriteLockNoWait ==
    /\ wpc = "lock"
    /\ lock' = "writer"
    /\ wpc' = "append"
    /\ UNCHANGED <<counter, cursor, events, ev, writers>>
    /\ UNCHANGED <<subVars, callerVars, histVars>>
    /\ UNCHANGED <<netVars, rpcVars>>

\* append: self.lock.Lock()
WriteLock ==
    /\ wpc = "lock"
    /\ lock = NoOwner
    /\ lock' = "writer"
    /\ wpc' = "append"
    /\ UNCHANGED <<counter, cursor, events, ev, writers>>
    /\ UNCHANGED <<subVars, callerVars, histVars>>
    /\ UNCHANGED <<netVars, rpcVars>>

\* append that loses the event
appendDrop(evs, e) == evs

\* append that puts the event at the front
appendPrepend(evs, e) == <<e>> \o evs

\* append(self.events, evs...)
appendEvents(evs, e) == Append(evs, e)

\* append: the body and the deferred Unlock; back to the top of Write's loop
WriteAppend ==
    /\ wpc = "append"
    /\ lock = "writer"
    /\ events' = appendEvents(events, ev)
    /\ appended' = appended \o SubSeq(events', Len(events) + 1, Len(events'))
    /\ lock' = NoOwner
    /\ wpc' = "recv"
    /\ UNCHANGED <<counter, cursor, ev, writers>>
    /\ UNCHANGED <<subVars, callerVars>>
    /\ UNCHANGED <<consumed, rejected, scan, lenAtClose, evAtClose>>
    /\ UNCHANGED <<netVars, rpcVars>>

\* ---- reset --------------------------------------------------------------

\* reset that zeroes the cursor without trimming
resetNoTrim(n) == [events |-> events, cursor |-> 0]

\* reset that trims one entry too many
resetOffByOne(n) == [events |-> Unread(events, cursor + 1), cursor |-> 0]

\* reset that seeks the cursor to the clamped n
resetSeek(n) ==
    LET m == IF n > counter THEN counter ELSE n
    IN  [events |-> Unread(events, cursor), cursor |-> m]

\* reset that trims and leaves the cursor where it was
resetKeepCursor(n) == [events |-> Unread(events, cursor), cursor |-> cursor]

\* reset that seeks the cursor to n, kept within the buffer
resetToN(n) ==
    [events |-> Unread(events, cursor),
     cursor |-> IF n < 0 THEN 0
                ELSE IF n > Len(events) - cursor THEN Len(events) - cursor
                ELSE n]

\* reset that does nothing
resetNothing(n) == [events |-> events, cursor |-> cursor]

\* reset(n): n is clamped to counter and then not used
reset(n) ==
    LET m == IF n > counter THEN counter ELSE n
    IN  [events |-> Unread(events, cursor), cursor |-> 0]

\* ---- Read ---------------------------------------------------------------

\* Read: self.lock.Lock()
ReadLock(c) ==
    /\ subscribed
    /\ pc[c] = "idle"
    /\ lock = NoOwner
    /\ lock' = c
    /\ pc' = [pc EXCEPT ![c] = "rd_loop"]
    /\ read' = [read EXCEPT ![c] = 0]
    /\ scan' = [scan EXCEPT ![c] = [start |-> Unread(events, cursor),
                                    calls |-> 0, sawFalse |-> FALSE,
                                    afterClose |-> closeReturned]]
    /\ UNCHANGED <<counter, cursor, events, arg, ret>>
    /\ UNCHANGED <<appended, consumed, rejected, lenAtClose, evAtClose>>
    /\ UNCHANGED <<subVars, writerVars>>
    /\ UNCHANGED <<netVars, rpcVars>>

\* a loop condition that stops one entry early
LoopCondShort(cur, evs) == cur < Len(evs) - 1

\* self.cursor < len(self.events)
LoopCond(cur, evs) == cur < Len(evs)

\* one evaluation of the loop condition
\*   self.cursor < len(self.events) && f(self.events[self.cursor])
\* and, when it holds, the loop body.  The predicate f is the caller's: its
\* answer b is arbitrary.
ReadLoop(c) ==
    /\ pc[c] = "rd_loop"
    /\ lock = c
    /\ IF LoopCond(cursor, events)
       THEN \E b \in BOOLEAN :
            LET e == events[cursor + 1] IN
            /\ scan' = [scan EXCEPT ![c].calls = @ + 1, ![c].sawFalse = ~b]
            /\ IF b
               THEN /\ read' = [read EXCEPT ![c] = @ + 1]
                    /\ cursor' = cursor + 1
                    /\ consumed' = Append(consumed, e)
                    /\ rejected' = NoEvent
                    /\ pc' = pc
               ELSE /\ rejected' = e
                    /\ pc' = [pc EXCEPT ![c] = "rd_reset"]
                    /\ UNCHANGED <<read, cursor, consumed>>
       ELSE /\ pc' = [pc EXCEPT ![c] = "rd_reset"]
            /\ UNCHANGED <<read, cursor, consumed, rejected, scan>>
    /\ UNCHANGED <<lock, counter, events, arg, ret>>
    /\ UNCHANGED <<appended, lenAtClose, evAtClose>>
    /\ UNCHANGED <<subVars, writerVars>>
    /\ UNCHANGED <<netVars, rpcVars>>

\* Read that returns without calling reset
ReadReturnNoReset(c) ==
    /\ pc[c] = "rd_reset"
    /\ lock = c
    /\ ret' = [ret EXCEPT ![c] = [op |-> "Read", val |-> read[c]]]
    /\ pc' = [pc EXCEPT ![c] = "unlock"]
    /\ UNCHANGED <<lock, counter, cursor, events, read, arg>>
    /\ UNCHANGED histVars
    /\ UNCHANGED <<subVars, writerVars>>
    /\ UNCHANGED <<netVars, rpcVars>>

\* self.reset(self.cursor); return read, nil
ReadReturn(c) ==
    /\ pc[c] = "rd_reset"
    /\ lock = c
    /\ events' = reset(cursor).events
    /\ cursor' = reset(cursor).cursor
    /\ ret' = [ret EXCEPT ![c] = [op |-> "Read", val |-> read[c]]]
    /\ pc' = [pc EXCEPT ![c] = "unlock"]
    /\ UNCHANGED <<lock, counter, read, arg>>
    /\ UNCHANGED histVars
    /\ UNCHANGED <<subVars, writerVars>>
    /\ UNCHANGED <<netVars, rpcVars>>

\* ---- Reset --------------------------------------------------------------

\* Reset(n): self.lock.Lock()
ResetLock(c, n) ==
    /\ subscribed
    /\ pc[c] = "idle"
    /\ lock = NoOwner
    /\ lock' = c
    /\ arg' = [arg EXCEPT ![c] = n]
    /\ pc' = [pc EXCEPT ![c] = "rs_body"]
    /\ UNCHANGED <<counter, cursor, events, read, ret>>
    /\ UNCHANGED <<subVars, writerVars, histVars>>
    /\ UNCHANGED <<netVars, rpcVars>>

\* Reset(n): self.reset(n)
ResetBody(c) ==
    /\ pc[c] = "rs_body"
    /\ lock = c
    /\ events' = reset(arg[c]).events
    /\ cursor' = reset(arg[c]).cursor
    /\ ret' = [ret EXCEPT ![c] = [op |-> "Reset", val |-> 0]]
    /\ pc' = [pc EXCEPT ![c] = "unlock"]
    /\ UNCHANGED <<lock, counter, read, arg>>
    /\ UNCHANGED <<subVars, writerVars, histVars>>
    /\ UNCHANGED <<netVars, rpcVars>>

\* ---- NewEntries / Counter / Cursor --------------------------------------

\* an accessor that enters its body without waiting for the lock
AccessorLockNoWait(c, body) ==
    /\ subscribed
    /\ pc[c] = "idle"
    /\ lock' = c
    /\ pc' = [pc EXCEPT ![c] = body]
    /\ UNCHANGED <<counter, cursor, events, read, arg, ret>>
    /\ UNCHANGED <<subVars, writerVars, histVars>>
    /\ UNCHANGED <<netVars, rpcVars>>

\* the accessors: self.lock.Lock()
AccessorLock(c, body) ==
    /\ subscribed
    /\ pc[c] = "idle"
    /\ lock = NoOwner
    /\ lock' = c
    /\ pc' = [pc EXCEPT ![c] = body]
    /\ UNCHANGED <<counter, cursor, events, read, arg, ret>>
    /\ UNCHANGED <<subVars, writerVars, histVars>>
    /\ UNCHANGED <<netVars, rpcVars>>

\* an accessor's return statement: the result is evaluated under the lock
AccessorBody(c, body, op, val) ==
    /\ pc[c] = body
    /\ lock = c
    /\ ret' = [ret EXCEPT ![c] = [op |-> op, val |-> val]]
    /\ pc' = [pc EXCEPT ![c] = "unlock"]
    /\ UNCHANGED <<lock, counter, cursor, events, read, arg>>
    /\ UNCHANGED <<subVars, writerVars, histVars>>
    /\ UNCHANGED <<netVars, rpcVars>>

NewEntriesLock(c) == AccessorLock(c, "ne_body")

\* return len(self.events) - self.cursor
NewEntriesBody(c) == AccessorBody(c, "ne_body", "NewEntries", Len(events) - cursor)

CounterLock(c) == AccessorLock(c, "ct_body")

\* return self.counter
CounterBody(c) == AccessorBody(c, "ct_body", "Counter", counter)

CursorLock(c) == AccessorLock(c, "cu_body")

\* return self.cursor
CursorBody(c) == AccessorBody(c, "cu_body", "Cursor", cursor)

\* defer self.lock.Unlock() of Read, Reset, NewEntries, Counter and Cursor:
\* the call returns ret[c] to the caller and its locals are gone
Unlock(c) ==
    /\ pc[c] = "unlock"
    /\ lock = c
    /\ lock' = NoOwner
    /\ pc' = [pc EXCEPT ![c] = "idle"]
    /\ ret' = [ret EXCEPT ![c] = NoRet]
    /\ read' = [read EXCEPT ![c] = 0]
    /\ arg' = [arg EXCEPT ![c] = 0]
    /\ scan' = [scan EXCEPT ![c] = NoScan]
    /\ UNCHANGED <<counter, cursor, events>>
    /\ UNCHANGED <<appended, consumed, rejected, lenAtClose, evAtClose>>
    /\ UNCHANGED <<subVars, writerVars>>
    /\ UNCHANGED <<netVars, rpcVars>>

\* ---- WaitEntries --------------------------------------------------------

\* WaitEntries(n): enter the loop
WaitEntries(c, n) ==
    /\ subscribed
    /\ pc[c] = "idle"
    /\ arg' = [arg EXCEPT ![c] = n]
    /\ pc' = [pc EXCEPT ![c] = "we_poll"]
    /\ UNCHANGED <<read, ret>>
    /\ UNCHANGED <<subVars, journalVars, writerVars, histVars>>
    /\ UNCHANGED <<netVars, rpcVars>>

\* the NewEntries call of the loop condition: self.lock.Lock()
WaitLock(c) ==
    /\ pc[c] = "we_poll"
    /\ lock = NoOwner
    /\ lock' = c
    /\ pc' = [pc EXCEPT ![c] = "we_body"]
    /\ UNCHANGED <<counter, cursor, events, read, arg, ret>>
    /\ UNCHANGED <<subVars, writerVars, histVars>>
    /\ UNCHANGED <<netVars, rpcVars>>

\* that call's return len(self.events) - self.cursor
WaitBody(c) ==
    /\ pc[c] = "we_body"
    /\ lock = c
    /\ ret' = [ret EXCEPT ![c] = [op |-> "NewEntries", val |-> Len(events) - cursor]]
    /\ pc' = [pc EXCEPT ![c] = "we_unlock"]
    /\ UNCHANGED <<lock, counter, cursor, events, read, arg>>
    /\ UNCHANGED <<subVars, writerVars, histVars>>
    /\ UNCHANGED <<netVars, rpcVars>>

\* a loop condition that also spins on a backlog of exactly n
WaitCondLe(ne, n) == ne <= n

\* self.NewEntries() < n
WaitCond(ne, n) == ne < n

\* that call's deferred Unlock, then the test of
\*   for self.NewEntries() < n {}
WaitTest(c) ==
    /\ pc[c] = "we_unlock"
    /\ lock = c
    /\ lock' = NoOwner
    /\ ret' = [ret EXCEPT ![c] = NoRet]
    /\ IF WaitCond(ret[c].val, arg[c])
       THEN /\ pc' = [pc EXCEPT ![c] = "we_poll"]
            /\ arg' = arg
       ELSE /\ pc' = [pc EXCEPT ![c] = "idle"]
            /\ arg' = [arg EXCEPT ![c] = 0]
    /\ UNCHANGED <<counter, cursor, events, read>>
    /\ UNCHANGED <<subVars, writerVars, histVars>>
    /\ UNCHANGED <<netVars, rpcVars>>

\* ---- specification ------------------------------------------------------

Next ==
    \/ \E types \in SubChoices : NewJournal(types)
    \/ \E t \in Types : Post(t)
    \/ WriteRecv
    \/ WriteLock
    \/ WriteAppend
    \/ \E c \in Callers : Close(c)
    \/ \E c \in Callers : ReadLock(c)
    \/ \E c \in Callers : ReadLoop(c)
    \/ \E c \in Callers : ReadReturn(c)
    \/ \E c \in Callers, n \in ResetArgs : ResetLock(c, n)
    \/ \E c \in Callers : ResetBody(c)
    \/ \E c \in Callers : NewEntriesLock(c)
    \/ \E c \in Callers : NewEntriesBody(c)
    \/ \E c \in Callers : CounterLock(c)
    \/ \E c \in Callers : CounterBody(c)
    \/ \E c \in Callers : CursorLock(c)
    \/ \E c \in Callers : CursorBody(c)
    \/ \E c \in Callers, n \in WaitArgs : WaitEntries(c, n)
    \/ \E c \in Callers : WaitLock(c)
    \/ \E c \in Callers : WaitBody(c)
    \/ \E c \in Callers : WaitTest(c)
    \/ \E c \in Callers : Unlock(c)

Spec == Init /\ [][Next]_vars

\* ---- the end-to-end scenario of the Journal ------------------------------

\* the number of events of type t posted in the scenario
Posted(t) == Cardinality({k \in 1..Len(posts) : posts[k] = t})

\* the scenario's NewJournal(eventer, Node-entries only)
ScenarioJournal == NewJournal({"Node"})

\* one of the scenario's eventer.Post calls, in any order
ScenarioPost(t) ==
    /\ subscribed
    /\ Posted(t) < (IF t = "Node" THEN ScenarioNodes ELSE ScenarioConns)
    /\ Deliver(t)
    /\ posts' = Append(posts, t)
    /\ UNCHANGED <<netVars, rpcVars>>

ScenarioNext ==
    \/ ScenarioJournal
    \/ \E t \in Types : ScenarioPost(t)
    \/ WriteRecv
    \/ WriteLock
    \/ WriteAppend
    \/ \E c \in Callers : NewEntriesLock(c)
    \/ \E c \in Callers : NewEntriesBody(c)
    \/ \E c \in Callers : Unlock(c)

ScenarioSpec == Init /\ [][ScenarioNext]_vars

\* the steps of the goroutine running Write
Writer == WriteRecv \/ WriteLock \/ WriteAppend

\* the steps a caller takes while it holds self.lock
Holding(c) ==
    \/ ReadLoop(c) \/ ReadReturn(c) \/ ResetBody(c)
    \/ NewEntriesBody(c) \/ CounterBody(c) \/ CursorBody(c)
    \/ WaitBody(c) \/ WaitTest(c) \/ Unlock(c)

\* the steps of a program whose Journal is made by NewJournal(eventer, "Node")
NodeNext ==
    \/ NewJournal({"Node"})
    \/ \E t \in Types : Post(t)
    \/ WriteRecv
    \/ WriteLock
    \/ WriteAppend
    \/ \E c \in Callers : Close(c)
    \/ \E c \in Callers : ReadLock(c)
    \/ \E c \in Callers : ReadLoop(c)
    \/ \E c \in Callers : ReadReturn(c)
    \/ \E c \in Callers, n \in ResetArgs : ResetLock(c, n)
    \/ \E c \in Callers : ResetBody(c)
    \/ \E c \in Callers : NewEntriesLock(c)
    \/ \E c \in Callers : NewEntriesBody(c)
    \/ \E c \in Callers : CounterLock(c)
    \/ \E c \in Callers : CounterBody(c)
    \/ \E c \in Callers : CursorLock(c)
    \/ \E c \in Callers : CursorBody(c)
    \/ \E c \in Callers, n \in WaitArgs : WaitEntries(c, n)
    \/ \E c \in Callers : WaitLock(c)
    \/ \E c \in Callers : WaitBody(c)
    \/ \E c \in Callers : WaitTest(c)
    \/ \E c \in Callers : Unlock(c)

NodeSpec == Init /\ [][NodeNext]_vars

\* The goroutine running Write is scheduled fairly and is not starved of
\* self.lock; the goroutine holding self.lock runs on to its Unlock.  The
\* Journal is subscribed to Node events; events of both types are posted.
LiveSpec ==
    /\ NodeSpec
    /\ SF_vars(Writer)
    /\ WF_vars(\E c \in Callers : Holding(c))

\* the steps of a caller inside WaitEntries
Polling(c) == WaitLock(c) \/ WaitBody(c) \/ WaitTest(c)

\* Whoever holds self.lock (the writer in append, or a caller) runs on to
\* its Unlock, and a goroutine spinning in WaitEntries is scheduled and is
\* not starved of self.lock (sync.Mutex hands the lock to a waiter that has
\* waited long).
WaitLiveSpec ==
    /\ NodeSpec
    /\ WF_vars(WriteAppend \/ \E c \in Callers : Holding(c))
    /\ \A c \in Callers : SF_vars(Polling(c))

\* ---- MockNetwork --------------------------------------------------------

\* len() of a slice of nodes, of a slice of connections
Size(s) == Cardinality(s.known) + s.others
ConnSize(s) == BagCardinality(s.known) + s.others

\* s[rand.Intn(len(s))]: any element of the slice
Picks(s) == s.known \cup (IF s.others > 0 THEN {Other} ELSE {})
ConnPicks(s) == BagToSet(s.known) \cup (IF s.others > 0 THEN {<<Other, Other>>} ELSE {})

\* an append that loses the node
AddNodeNothing(s, x) == s

\* append(s, x)
AddNode(s, x) ==
    IF x = Other THEN [s EXCEPT !.others = @ + 1]
    ELSE [s EXCEPT !.known = @ \cup {x}]

\* a removal that leaves the node in the slice
RemoveNodeNothing(s, x) == s

\* append(s[0:c], s[c+1:]...)
RemoveNode(s, x) ==
    IF x = Other THEN [s EXCEPT !.others = @ - 1]
    ELSE [s EXCEPT !.known = @ \ {x}]
IsKnown(p) == p[1] # Other /\ p[2] # Other
AddConn(s, p) ==
    IF IsKnown(p) THEN [s EXCEPT !.known = @ (+) SetToBag({p})]
    ELSE [s EXCEPT !.others = @ + 1]
RemoveConn(s, p) ==
    IF IsKnown(p) THEN [s EXCEPT !.known = @ (-) SetToBag({p})]
    ELSE [s EXCEPT !.others = @ - 1]

\* oneOutOf that returns the number it drew
oneOutOfDrawn(n) == 0..(n - 1)

\* oneOutOf(n): 1 when rand.Intn(n) is 0, else 0
oneOutOf(n) == {IF t = 0 THEN 1 ELSE 0 : t \in 0..(n - 1)}

\* deltas that seeds twenty nodes and ten connections
deltasSwapped(i) ==
    IF i = 0
    THEN {<<[On |-> 20, Off |-> 0], [On |-> 10, Off |-> 0]>>}
    ELSE {<<[On |-> a, Off |-> b], [On |-> c, Off |-> d]>> :
            a \in oneOutOf(10), b \in oneOutOf(10),
            c \in oneOutOf(2), d \in oneOutOf(2)}

\* deltas(i): the values it can return
deltas(i) ==
    IF i = 0
    THEN {<<[On |-> 10, Off |-> 0], [On |-> 20, Off |-> 0]>>}
    ELSE {<<[On |-> a, Off |-> b], [On |-> c, Off |-> d]>> :
            a \in oneOutOf(10), b \in oneOutOf(10),
            c \in oneOutOf(2), d \in oneOutOf(2)}

\* a driver that goes on to update its slices after a failed Post
IfPostedOrNot(ok, new, old) == new

\* if err != nil { panic(err.Error()) } stands before the update of the slices
IfPosted(ok, new, old) == IF ok THEN new ELSE old

\* the test that lets a caller equal to its callee through
NotBeforeStrict(caller, callee) == caller > callee

\* bytes.Compare(caller[:], callee[:]) >= 0
NotBefore(caller, callee) == caller >= callee

\* a draw that never comes out in order
SkipsAlways(caller, callee) == {TRUE}

\* the values bytes.Compare(caller, callee) >= 0 can have: the order of two
\* known ids is known; an id that is not followed can sort on either side
\* of any other id, and two picks of one can be the same node
Skips(caller, callee) ==
    IF IsKnown(<<caller, callee>>) THEN {NotBefore(caller, callee)}
    ELSE IF caller = Other /\ callee = Other /\ onNodes.others = 1 THEN {TRUE}
    ELSE BOOLEAN

\* MockNetwork(eventer, ticker) starts: ids := RandomNodeIDs(100) and the
\* three slices
NetInit ==
    /\ JournalInit
    /\ RpcOff
    /\ mpc = "wait"
    /\ tick = 0
    /\ ds = NoDeltas
    /\ loopi = 0
    /\ onNodes = NoNodes
    /\ offNodes = [known |-> KnownIds, others |-> PoolSize - Cardinality(KnownIds)]
    /\ onConns = NoConns
    /\ lastPost = NoPost
    /\ cnt = NoCount

\* everything MockNetwork does not touch
journalSide == <<subVars, journalVars, writerVars, callerVars, histVars, rpcVars>>

\* for _ = range ticker { ds := deltas(n)
Tick ==
    /\ mpc = "wait"
    /\ tick <= MaxTicks
    /\ ds' \in deltas(tick)
    /\ mpc' = "nodeOn"
    /\ loopi' = 0
    /\ lastPost' = NoPost
    /\ cnt' = NoCount
    /\ UNCHANGED <<tick, onNodes, offNodes, onConns>>
    /\ UNCHANGED journalSide

\* err := eventer.Post(e): it succeeds (ok) or returns an error, and then
\* the driver panics; otherwise the loop goes on with i++
PostEntry(ok, e, kind) ==
    /\ mpc' = IF ok THEN mpc ELSE "panic"
    /\ loopi' = IF ok THEN loopi + 1 ELSE loopi
    /\ lastPost' = IF ok THEN e ELSE lastPost
    /\ cnt' = IF ok THEN [cnt EXCEPT ![kind] = @ + 1] ELSE cnt

\* leave a loop for the next one
NextLoop(next) ==
    /\ mpc' = next
    /\ loopi' = 0
    /\ UNCHANGED <<onNodes, offNodes, onConns, lastPost, cnt>>

\* for i := 0; len(offNodes) > 0 && i < ds[0].On; i++ { ... }
NodeOn ==
    /\ mpc = "nodeOn"
    /\ IF Size(offNodes) > 0 /\ loopi < ds[1].On
       THEN \E x \in Picks(offNodes), ok \in BOOLEAN :
            /\ PostEntry(ok, [type |-> "Node", action |-> "On", obj |-> <<x>>], "nodeOn")
            /\ onNodes' = IfPosted(ok, AddNode(onNodes, x), onNodes)
            /\ offNodes' = IfPosted(ok, RemoveNode(offNodes, x), offNodes)
            /\ UNCHANGED onConns
       ELSE NextLoop("nodeOff")
    /\ UNCHANGED <<tick, ds>>
    /\ UNCHANGED journalSide

\* for i := 0; len(onNodes) > 0 && i < ds[0].Off; i++ { ... }
NodeOff ==
    /\ mpc = "nodeOff"
    /\ IF Size(onNodes) > 0 /\ loopi < ds[1].Off
       THEN \E x \in Picks(onNodes), ok \in BOOLEAN :
            /\ PostEntry(ok, [type |-> "Node", action |-> "Off", obj |-> <<x>>], "nodeOff")
            /\ onNodes' = IfPosted(ok, RemoveNode(onNodes, x), onNodes)
            /\ offNodes' = IfPosted(ok, AddNode(offNodes, x), offNodes)
            /\ UNCHANGED onConns
       ELSE NextLoop("connOn")
    /\ UNCHANGED <<tick, ds>>
    /\ UNCHANGED journalSide

\* for i := 0; len(onNodes) > 1 && i < ds[1].On; i++ { ... }: when the
\* caller does not sort before the callee, i-- and continue leave everything
\* as it was
ConnOn ==
    /\ mpc = "connOn"
    /\ IF Size(onNodes) > 1 /\ loopi < ds[2].On
       THEN \E caller \in Picks(onNodes), callee \in Picks(onNodes) :
            \E skip \in Skips(caller, callee), ok \in BOOLEAN :
            IF skip
            THEN UNCHANGED <<mpc, loopi, lastPost, cnt, onNodes, offNodes, onConns>>
            ELSE /\ PostEntry(ok, [type |-> "Conn", action |-> "On",
                                   obj |-> <<caller, callee>>], "connOn")
                 /\ onConns' = IfPosted(ok, AddConn(onConns, <<caller, callee>>), onConns)
                 /\ UNCHANGED <<onNodes, offNodes>>
       ELSE NextLoop("connOff")
    /\ UNCHANGED <<tick, ds>>
    /\ UNCHANGED journalSide

\* for i := 0; len(onConns) > 0 && i < ds[1].Off; i++ { ... }; n++
ConnOff ==
    /\ mpc = "connOff"
    /\ IF ConnSize(onConns) > 0 /\ loopi < ds[2].Off
       THEN \E p \in ConnPicks(onConns), ok \in BOOLEAN :
            /\ PostEntry(ok, [type |-> "Conn", action |-> "Off", obj |-> p], "connOff")
            /\ onConns' = IfPosted(ok, RemoveConn(onConns, p), onConns)
            /\ UNCHANGED <<onNodes, offNodes, tick>>
       ELSE /\ NextLoop("wait")
            /\ tick' = tick + 1
    /\ UNCHANGED ds
    /\ UNCHANGED journalSide

NetNext == Tick \/ NodeOn \/ NodeOff \/ ConnOn \/ ConnOff

NetSpec == NetInit /\ [][NetNext]_vars

\* the loops of a cycle
Loops == {"nodeOn", "nodeOff", "connOn", "connOff"}

\* Once a tick has come the driver runs; a draw of caller and callee that is
\* retried leaves the state as it was, and a fair rand.Intn does not give
\* draws to retry for ever.  Ticks come from outside: nothing is assumed
\* about them.
NetLiveSpec == NetSpec /\ WF_vars(NodeOn \/ NodeOff \/ ConnOn \/ ConnOff)

\* how many of the ids that are not followed are on, in a state between
\* two later ticks: none of them, or all of them
LateOthers == {0, PoolSize - Cardinality(KnownIds)}

\* MockNetwork between two ticks, long after tick 0, with no connection on:
\* any of the known ids on, and the other ids all off or all on.  tick is 1
\* for every n > 0 here (deltas only tells 0 from the rest).
NetLateInit ==
    /\ JournalInit
    /\ RpcOff
    /\ mpc = "wait"
    /\ tick = 1
    /\ ds = NoDeltas
    /\ loopi = 0
    /\ \E on \in SUBSET KnownIds, k \in LateOthers :
          /\ onNodes = [known |-> on, others |-> k]
          /\ offNodes = [known |-> KnownIds \ on,
                         others |-> PoolSize - Cardinality(KnownIds) - k]
    /\ onConns = NoConns
    /\ lastPost = NoPost
    /\ cnt = NoCount

\* MockNetwork from its start, or from a later state with the off-pool or
\* the on-set (nearly) used up
NetWideInit == NetInit \/ NetLateInit

NetWideSpec == NetWideInit /\ [][NetNext]_vars

\* ---- rpcBackend ---------------------------------------------------------

\* ContractCall, AccountNonce, GasPrice, GasLimit, SendTransaction
Methods == {"ContractCall", "AccountNonce", "GasPrice", "GasLimit", "SendTransaction"}

\* the counts of requests made before a run starts: none, and two short of
\* 2^31 and of 2^32
RqStarts == {Zero32, [hi |-> 32767, lo |-> 65534], [hi |-> 65535, lo |-> 65534]}

\* a count of requests plus one (no wrap-around)
CountInc(a) ==
    IF a.lo = Half - 1 THEN [hi |-> a.hi + 1, lo |-> 0] ELSE [a EXCEPT !.lo = @ + 1]

\* an AddUint32 that adds nothing
AddUint32Zero(a) == a

\* atomic.AddUint32(&backend.autoid, 1): modulo 2^32
AddUint32(a) ==
    IF a.lo = Half - 1 THEN [hi |-> (a.hi + 1) % Half, lo |-> 0]
    ELSE [a EXCEPT !.lo = @ + 1]

\* int(x) of a uint32 x: the same number where int has 64 bits, the number
\* modulo 2^32 in -2^31 .. 2^31 - 1 where it has 32
ToInt(a, bits) ==
    IF bits = 32 /\ a.hi >= Half \div 2 THEN [a EXCEPT !.hi = @ - Half] ELSE a

\* a < b for two numbers hi * 2^16 + lo
Less(a, b) == a.hi < b.hi \/ (a.hi = b.hi /\ a.lo < b.lo)

\* NewRPCBackend(client), possibly long ago
RpcInit ==
    /\ JournalInit
    /\ NetOff
    /\ rbLock = NoOwner
    /\ rqbase \in RqStarts
    /\ autoid = rqbase
    /\ intBits \in {32, 64}
    /\ rq = [c \in Callers |-> NoRequest]
    /\ ids = <<>>
    /\ wire = <<>>

rpcSide == <<subVars, journalVars, writerVars, callerVars, histVars, netVars>>

\* a caller calls one of the five methods; SendTransaction returns at once
\* when rlp.EncodeToBytes fails, the others go straight to backend.request
MethodCall(c, m) ==
    /\ rq[c].pc = "idle"
    /\ Len(ids) + Cardinality({d \in Callers : rq[d].pc = "lock"}) < MaxRequests
    /\ \E encoded \in (IF m = "SendTransaction" THEN BOOLEAN ELSE {TRUE}) :
          rq' = IF encoded THEN [rq EXCEPT ![c].pc = "lock"] ELSE rq
    /\ UNCHANGED <<rbLock, autoid, intBits, rqbase, ids, wire>>
    /\ UNCHANGED rpcSide

\* a request that does not wait for the lock
RequestLockNoWait(c) ==
    /\ rq[c].pc = "lock"
    /\ rbLock' = c
    /\ rq' = [rq EXCEPT ![c].pc = "assemble"]
    /\ UNCHANGED <<autoid, intBits, rqbase, ids, wire>>
    /\ UNCHANGED rpcSide

\* backend.lock.Lock()
RequestLock(c) ==
    /\ rq[c].pc = "lock"
    /\ rbLock = NoOwner
    /\ rbLock' = c
    /\ rq' = [rq EXCEPT ![c].pc = "assemble"]
    /\ UNCHANGED <<autoid, intBits, rqbase, ids, wire>>
    /\ UNCHANGED rpcSide

\* req := &request{Id: int(atomic.AddUint32(&backend.autoid, 1)), ...}
RequestAssemble(c) ==
    /\ rq[c].pc = "assemble"
    /\ autoid' = AddUint32(autoid)
    /\ rq' = [rq EXCEPT ![c].pc = "send", ![c].id = ToInt(autoid', intBits)]
    /\ ids' = Append(ids, ToInt(autoid', intBits))
    /\ UNCHANGED <<rbLock, intBits, rqbase, wire>>
    /\ UNCHANGED rpcSide

\* if err := backend.client.Send(req); err != nil { return nil, err }
RequestSend(c) ==
    /\ rq[c].pc = "send"
    /\ \E ok \in BOOLEAN :
          /\ wire' = Append(wire, [op |-> "Send", by |-> c, id |-> rq[c].id, ok |-> ok])
          /\ rq' = IF ok THEN [rq EXCEPT ![c].pc = "recv"]
                   ELSE [rq EXCEPT ![c].pc = "unlock",
                                   ![c].out = [result |-> "nil", err |-> "send"]]
    /\ UNCHANGED <<rbLock, autoid, intBits, rqbase, ids>>
    /\ UNCHANGED rpcSide

\* a request that hands the result on whatever the error field holds
ResultOfIgnoreError(res) == [result |-> res.result, err |-> "nil"]

\* if len(res.Error) > 0 { return nil, fmt.Errorf(...) }; return res.Result, nil
ResultOf(res) ==
    IF res.error # "" THEN [result |-> "nil", err |-> "remote"]
    ELSE [result |-> res.result, err |-> "nil"]

\* the responses the server can send: a result, with or without an error
Responses == {[error |-> e, result |-> "0x1"] : e \in {"", "e"}}

\* res := new(response); if err := backend.client.Recv(res); err != nil
\* { return nil, err }, then the test of res.Error
RequestRecv(c) ==
    /\ rq[c].pc = "recv"
    /\ \E ok \in BOOLEAN, res \in Responses :
          /\ wire' = Append(wire, [op |-> "Recv", by |-> c, id |-> rq[c].id, ok |-> ok])
          /\ rq' = IF ok
                   THEN [rq EXCEPT ![c].pc = "unlock", ![c].res = res,
                                   ![c].out = ResultOf(res)]
                   ELSE [rq EXCEPT ![c].pc = "unlock",
                                   ![c].out = [result |-> "nil", err |-> "recv"]]
    /\ UNCHANGED <<rbLock, autoid, intBits, rqbase, ids>>
    /\ UNCHANGED rpcSide

\* defer backend.lock.Unlock(): request returns rq[c].out to the method
RequestUnlock(c) ==
    /\ rq[c].pc = "unlock"
    /\ rbLock = c
    /\ rbLock' = NoOwner
    /\ rq' = [rq EXCEPT ![c].pc = "decode"]
    /\ UNCHANGED <<autoid, intBits, rqbase, ids, wire>>
    /\ UNCHANGED rpcSide

\* the method returns: the error of request, or what json.Unmarshal makes
\* of the result
MethodReturn(c) ==
    /\ rq[c].pc = "decode"
    /\ rq' = [rq EXCEPT ![c] = NoRequest]
    /\ UNCHANGED <<rbLock, autoid, intBits, rqbase, ids, wire>>
    /\ UNCHANGED rpcSide

RpcNext ==
    \/ \E c \in Callers, m \in Methods : MethodCall(c, m)
    \/ \E c \in Callers : RequestLock(c)
    \/ \E c \in Callers : RequestAssemble(c)
    \/ \E c \in Callers : RequestSend(c)
    \/ \E c \in Callers : RequestRecv(c)
    \/ \E c \in Callers : RequestUnlock(c)
    \/ \E c \in Callers : MethodReturn(c)

RpcSpec == RpcInit /\ [][RpcNext]_vars

TypeOK ==
    /\ subscribed \in BOOLEAN
    /\ closed \in BOOLEAN
    /\ lock \in Callers \cup {NoOwner, "writer"}
    /\ wpc \in {"none", "recv", "lock", "append", "done"}
    /\ nposted \in 0..MaxPosts
    /\ Len(chan) <= 1

\* ---- properties ---------------------------------------------------------

Ids == 1..MaxPosts
InSeq(i, s) == \E k \in 1..Len(s) : s[k].id = i
Count(i, s) == Cardinality({k \in 1..Len(s) : s[k].id = i})
\* a Read of caller c has run to its return statement
ReadDone(c) == pc[c] = "unlock" /\ ret[c].op = "Read"
\* the entries appended so far: those consumed, then those unread
All == consumed \o Unread(events, cursor)
\* the events sent on the channel that are neither appended nor dropped
Unaccounted == {i \in sent : ~InSeq(i, All) /\ i \notin dropped}

\* C1: every event sent on the subscription channel while the Journal was
\* subscribed is eventually appended, unless Close interrupted the send
\* itself; an appended event stays appended (in the buffer or consumed),
\* and no event is in the buffer twice.
C1_NoLoss ==
    /\ (Unaccounted # {}) ~> (Unaccounted = {})
    /\ [][\A i \in Ids : InSeq(i, All) => InSeq(i, All')]_vars
    /\ [](\A i \in Ids : Count(i, events) <= 1)

\* an event was appended although Reads and a Reset ran in between
C1_Witness ==
    /\ InSeq(2, events)
    /\ consumed # <<>>
    /\ \E c \in Callers : pc[c] = "rs_body"

\* C2: the buffer holds the events in the order they were posted: ids grow
\* along the buffer, and every consumed entry was posted before every entry
\* still unread.
C2_AppendOrder ==
    /\ \A i, j \in 1..Len(events) : i < j => events[i].id < events[j].id
    /\ \A i \in 1..Len(consumed) : \A j \in (cursor + 1)..Len(events) :
          consumed[i].id < events[j].id

\* two events posted one after the other are both in the buffer
C2_Witness == Len(events) = 2 /\ cursor = 0

\* C3: the entries the predicates accepted, followed by the unread entries,
\* are exactly the appended entries in append order; an entry a predicate
\* rejected is the first unread entry until a predicate accepts it.
C3_ReadInOrder ==
    /\ appended = consumed \o Unread(events, cursor)
    /\ rejected # NoEvent => /\ cursor < Len(events)
                             /\ events[cursor + 1] = rejected

\* one entry was consumed, the next one was rejected and is presented again
C3_Witness ==
    /\ Len(consumed) = 1
    /\ rejected # NoEvent
    /\ \E c \in Callers : pc[c] = "rd_loop" /\ scan[c].calls = 0

\* C4: a Read whose predicate returned false on its k-th call returns k-1,
\* made no call after that one, consumed the first k-1 entries of the
\* backlog it started with, and leaves the k-th as the first unread entry.
C4_ReadStopsAtFalse ==
    \A c \in Callers :
        (ReadDone(c) /\ scan[c].sawFalse) =>
            LET k == scan[c].calls
                start == scan[c].start
            IN  /\ k >= 1
                /\ ret[c].val = k - 1
                /\ Unread(events, cursor) = SubSeq(start, k, Len(start))
                /\ Backlog = Len(start) - (k - 1)
                /\ Len(consumed) >= k - 1
                /\ SubSeq(consumed, Len(consumed) - k + 2, Len(consumed))
                       = SubSeq(start, 1, k - 1)

\* a Read accepted the first entry and rejected the second
C4_Witness ==
    \E c \in Callers :
        ReadDone(c) /\ scan[c].sawFalse /\ scan[c].calls = 2

\* C5: a Read whose predicate returned true on every call returns the size
\* of the backlog it started with and leaves no unread entry.
C5_ReadAllTrue ==
    \A c \in Callers :
        (ReadDone(c) /\ ~scan[c].sawFalse) =>
            /\ ret[c].val = Len(scan[c].start)
            /\ Backlog = 0
            /\ Len(consumed) >= Len(scan[c].start)
            /\ SubSeq(consumed, Len(consumed) - Len(scan[c].start) + 1,
                      Len(consumed)) = scan[c].start

\* a Read consumed a backlog of two entries in one call
C5_Witness ==
    \E c \in Callers :
        ReadDone(c) /\ ~scan[c].sawFalse /\ Len(scan[c].start) = 2

\* C6: counter, and the value Counter() returns, is the number of entries
\* ever appended.
C6_CounterCountsAppends ==
    /\ counter = Len(appended)
    /\ \A c \in Callers :
          (pc[c] = "unlock" /\ ret[c].op = "Counter") => ret[c].val = Len(appended)

\* C7: the cursor stays within the buffer: 0 <= cursor <= len(events).
C7_CursorInRange == 0 <= cursor /\ cursor <= Len(events)

\* Reset(n) ran with n beyond the end of a buffer that is not empty
C7_Witness ==
    /\ events # <<>>
    /\ \E c \in Callers :
          pc[c] = "unlock" /\ ret[c].op = "Reset" /\ arg[c] > Len(events)

\* C8: NewEntries returns len(events) - cursor; the backlog grows by one
\* with each append, shrinks by one with each entry a Read consumes (by the
\* returned count over the whole Read) and no other step changes it.
C8_Backlog ==
    [][ /\ \A c \in Callers :
              (pc[c] \in {"ne_body", "we_body"} /\ pc'[c] # pc[c])
                  => ret'[c].val = Len(events) - cursor
        /\ (wpc = "append" /\ wpc' = "recv") => Backlog' = Backlog + 1
        /\ \A c \in Callers :
              (pc[c] = "rd_reset" /\ pc'[c] = "unlock")
                  => Backlog' = Len(scan[c].start) - ret'[c].val
        /\ Backlog' # Backlog =>
              \/ wpc = "append" /\ wpc' = "recv" /\ Backlog' = Backlog + 1
              \/ \E c \in Callers : /\ pc[c] = "rd_loop"
                                    /\ read'[c] = read[c] + 1
                                    /\ Backlog' = Backlog - 1
      ]_vars

\* NewEntries is about to return a backlog of two
C8_Witness ==
    \E c \in Callers :
        pc[c] = "unlock" /\ ret[c].op = "NewEntries" /\ ret[c].val = 2

\* C9 as stated: once Close has returned, the number of entries appended
\* (unread plus consumed) does not grow.
C9_NoAppendAfterClose ==
    [][closeReturned => Backlog' + Len(consumed') <= Backlog + Len(consumed)]_vars

\* C9 amended: no event posted after Close returned is ever appended; after
\* Close returned the buffer grows by at most one entry, the event Write
\* had already received and not yet appended when Close was called.
C9_OnlyInFlightAfterClose ==
    /\ \A k \in 1..Len(events) : events[k].id \notin late
    /\ \A k \in 1..Len(consumed) : consumed[k].id \notin late
    /\ closeReturned =>
          LET all == consumed \o Unread(events, cursor)
          IN  /\ Len(all) <= lenAtClose + 1
              /\ Len(all) = lenAtClose + 1 =>
                    /\ evAtClose # NoEvent
                    /\ all[Len(all)] = evAtClose

\* the in-flight event was appended after Close, an event posted later was not
C9_Witness ==
    /\ closeReturned
    /\ late # {}
    /\ Len(appended) = lenAtClose + 1

Delivered == chan = <<>> /\ wpc = "recv"

\* C11: a Journal subscribed to Node events only never holds a Conn event;
\* once the posted events are delivered (3 Node and 2 Conn events in the
\* scenario) the backlog, and what NewEntries returns, is the number of Node
\* events posted.
C11_NodeOnly ==
    /\ \A k \in 1..Len(events) : events[k].type = "Node"
    /\ Delivered =>
          /\ Backlog = Posted("Node")
          /\ \A c \in Callers :
                (pc[c] = "unlock" /\ ret[c].op = "NewEntries")
                    => ret[c].val = Posted("Node")

\* 3 Node and 2 Conn events are posted and delivered, NewEntries returns 3
C11_Witness ==
    /\ Posted("Node") = ScenarioNodes
    /\ Posted("Conn") = ScenarioConns
    /\ posts[Len(posts)] = "Conn"
    /\ Delivered
    /\ \E c \in Callers :
          pc[c] = "unlock" /\ ret[c].op = "NewEntries" /\ ret[c].val = ScenarioNodes

\* C12: reset gives the same buffer and cursor for every argument; a Reset
\* drops exactly the entries before the cursor, keeps the unread entries in
\* order and leaves the cursor at 0, whatever n it was called with.
C12_ResetIgnoresN ==
    /\ [](\A n, m \in ResetArgs : reset(n) = reset(m))
    /\ [][\A c \in Callers :
            (pc[c] = "rs_body" /\ pc'[c] = "unlock") =>
                /\ cursor' = 0
                /\ events' = Unread(events, cursor)
                /\ Unread(events', cursor') = Unread(events, cursor)
                /\ \A m \in ResetArgs :
                      reset(m).events = events' /\ reset(m).cursor = cursor'
         ]_vars

\* Reset(-1) ran on a buffer of two unread entries
C12_Witness ==
    /\ Len(events) = 2
    /\ \E c \in Callers :
          pc[c] = "unlock" /\ ret[c].op = "Reset" /\ arg[c] = -1

\* C13: the number of entries the predicates accepted is Counter() minus the
\* entries still unread (Reset and the trim drop no unread entry), and the
\* accepted entries are in post order.
C13_DeliveredIsCounterMinusUnread ==
    /\ Len(consumed) = counter - Backlog
    /\ \A i, j \in 1..Len(consumed) : i < j => consumed[i].id < consumed[j].id

\* the positions between Lock and the deferred Unlock of Read, Reset,
\* NewEntries, Counter, Cursor and of the NewEntries call inside WaitEntries
BodyPcs == {"rd_loop", "rd_reset", "rs_body", "ne_body", "ct_body", "cu_body",
            "unlock", "we_body", "we_unlock"}

\* the positions at which a body starts, right after Lock
EntryPcs == {"rs_body", "ne_body", "ct_body", "cu_body", "we_body"}

InBody == {c \in Callers : pc[c] \in BodyPcs}

\* C14 as stated: every public operation holds the lock for its full
\* duration, so a caller inside any call is the lock's owner.
C14_EveryOperationLocked ==
    \A c \in Callers : pc[c] # "idle" => lock = c

\* C14, amended: append, Read, Reset, NewEntries, Counter and Cursor hold the
\* lock from entry to return, at most one of them (or the writer's append) is
\* in its body at a time, the buffer, cursor and counter change only in a
\* step of the lock's owner, and a body starts on a state no Read has left
\* half-done (cursor 0).  WaitEntries holds the lock only inside each
\* NewEntries call it makes; Close and Write's channel receive hold none.
C14_StateUnderLock ==
    /\ [](/\ \A c \in Callers : pc[c] \in BodyPcs <=> lock = c
          /\ wpc = "append" <=> lock = "writer"
          /\ Cardinality(InBody) + (IF wpc = "append" THEN 1 ELSE 0) <= 1
          /\ (lock = NoOwner \/ wpc = "append"
                \/ \E c \in Callers : pc[c] \in EntryPcs) => cursor = 0)
    /\ [][<<events, cursor, counter>>' # <<events, cursor, counter>> =>
            /\ lock # NoOwner
            /\ \/ lock = "writer" /\ wpc = "append" /\ wpc' = "recv"
               \/ \E c \in Callers : lock = c /\ pc[c] \in {"rd_loop", "rd_reset", "rs_body"}
         ]_vars

\* a Read is half-way through the buffer while the writer waits for the lock
\* and the other caller spins in WaitEntries without it
C14_Witness ==
    /\ wpc = "lock"
    /\ \E c, d \in Callers :
          /\ pc[c] = "rd_loop" /\ lock = c /\ cursor > 0
          /\ pc[d] = "we_poll"

\* ---- MockNetwork properties ---------------------------------------------

\* tick 0 has run to its end (n++), the next tick has not come
Tick0Done == mpc = "wait" /\ tick = 1

\* the tick whose posts cnt counts
CountedTick == IF mpc = "wait" THEN tick - 1 ELSE tick

\* C15: tick 0 on a fresh pool of 100 ids posts exactly 10 Node/On events,
\* for 10 different nodes, then exactly 20 Conn/On events, and no Off event.
C15_SeedTick ==
    /\ Tick0Done =>
          /\ cnt = [nodeOn |-> 10, nodeOff |-> 0, connOn |-> 20, connOff |-> 0]
          /\ Size(onNodes) = 10
          /\ Size(offNodes) = PoolSize - 10
    /\ CountedTick = 0 =>
          /\ cnt.nodeOff = 0 /\ cnt.connOff = 0
          /\ cnt.nodeOn = Size(onNodes)
          /\ Size(onNodes) + Size(offNodes) = PoolSize
          /\ cnt.connOn > 0 => cnt.nodeOn = 10

\* tick 0 is over and both known ids are among the ten nodes switched on
C15_Witness ==
    /\ Tick0Done
    /\ onNodes.known = KnownIds
    /\ ConnSize(onConns) = 20

\* C16: every Conn/On event posted connects two different nodes that are both
\* on when it is posted, and its caller sorts strictly before its callee.
C16_ConnOrdered ==
    [][cnt'.connOn = cnt.connOn + 1 =>
          LET p == lastPost'.obj IN
          /\ lastPost'.type = "Conn" /\ lastPost'.action = "On"
          /\ p[1] \in Picks(onNodes) /\ p[2] \in Picks(onNodes)
          /\ IsKnown(p) => p[1] < p[2]
          /\ (p[1] = Other /\ p[2] = Other) => onNodes.others >= 2
          /\ onNodes' = onNodes
      ]_vars

\* on a later tick a node went off and then the two known ids were connected
C16_Witness ==
    /\ tick = 1
    /\ cnt.nodeOff = 1 /\ cnt.connOn = 1
    /\ lastPost = [type |-> "Conn", action |-> "On", obj |-> <<1, 2>>]

\* C17: MockNetwork never generates a duplicate connection: the slice of
\* connections that are on never holds the same pair twice.
C17_NoDuplicateConn ==
    \A p \in BagToSet(onConns.known) : CopiesIn(p, onConns.known) <= 1

\* the sixteen results deltas has on a tick other than 0
LaterDeltas ==
    {<<[On |-> a, Off |-> b], [On |-> c, Off |-> d]>> :
        a \in {0, 1}, b \in {0, 1}, c \in {0, 1}, d \in {0, 1}}

\* C18: deltas(0) is (10, 0) for nodes and (20, 0) for connections; on any
\* other tick each of the four counts is 0 or 1, in every combination, so a
\* later tick posts at most one event of each kind.
C18_Deltas ==
    /\ deltas(0) = {<<[On |-> 10, Off |-> 0], [On |-> 20, Off |-> 0]>>}
    /\ \A i \in 1..MaxTicks : deltas(i) = LaterDeltas
    /\ mpc \in {"nodeOn", "nodeOff", "connOn", "connOff"} => ds \in deltas(tick)
    /\ CountedTick >= 1 =>
          /\ cnt.nodeOn <= ds[1].On /\ cnt.nodeOff <= ds[1].Off
          /\ cnt.connOn <= ds[2].On /\ cnt.connOff <= ds[2].Off
          /\ \A k \in DOMAIN cnt : cnt[k] <= 1

\* a later tick posted one event of each kind
C18_Witness ==
    /\ CountedTick = 1
    /\ cnt = [nodeOn |-> 1, nodeOff |-> 1, connOn |-> 1, connOff |-> 1]

\* C19: a failed Post stops the driver: after it nothing more is posted and
\* nothing changes, and the step that fails does not apply the change of the
\* event it could not post.
C19_PostFailureFatal ==
    [][/\ mpc = "panic" => UNCHANGED netVars
       /\ (mpc # "panic" /\ mpc' = "panic") =>
             UNCHANGED <<onNodes, offNodes, onConns, cnt, lastPost, tick, loopi, ds>>
      ]_vars

\* the driver panicked on a later tick, after it had posted a Node/Off event
C19_Witness ==
    /\ mpc = "panic"
    /\ tick = 1
    /\ cnt.nodeOff = 1
    /\ lastPost.type = "Node" /\ lastPost.action = "Off"

\* ---- WaitEntries --------------------------------------------------------

\* caller c is inside WaitEntries
Waiting(c) == pc[c] \in {"we_poll", "we_body", "we_unlock"}

\* C20: WaitEntries(n) returns only after one of its NewEntries calls saw a
\* backlog of at least n, and returns after the first such call (so after
\* its first call when n <= 0 or the backlog is already there); it never
\* returns when n is more than is ever unread; and it does not spin forever
\* on a backlog that stays at n or more.
C20_WaitEntries ==
    /\ [](\A c \in Callers : pc[c] = "we_unlock" =>
             ret[c].val = Backlog /\ ret[c].val >= 0)
    /\ [][\A c \in Callers :
            /\ (pc[c] = "we_unlock" /\ pc'[c] = "idle") => ret[c].val >= arg[c]
            /\ (pc[c] = "we_unlock" /\ pc'[c] = "we_poll") => ret[c].val < arg[c]
            /\ (Waiting(c) /\ ~Waiting(c)') => pc[c] = "we_unlock"
            /\ (Waiting(c) /\ arg[c] > MaxPosts) => Waiting(c)'
         ]_vars
    /\ \A c \in Callers : []<>~(Waiting(c) /\ Backlog >= arg[c])

\* one caller's WaitEntries(1) has seen an entry and is about to return
\* while the other spins in a WaitEntries that cannot be satisfied
C20_Witness ==
    \E c, d \in Callers :
        /\ pc[c] = "we_unlock" /\ arg[c] = 1 /\ ret[c].val >= 1
        /\ pc[d] = "we_poll" /\ arg[d] = MaxPosts + 1

\* ---- Read, Cursor and Close ---------------------------------------------

\* C21: when a Read returns the buffer holds exactly the unread entries and
\* none of the entries consumed so far; the trim drops the entries before
\* the cursor and no other; no predicate is ever called on an entry that
\* was consumed before.
C21_ReadTrims ==
    /\ [](\A c \in Callers : ReadDone(c) =>
             /\ cursor = 0
             /\ Len(events) = Backlog
             /\ \A k \in 1..Len(events) : ~InSeq(events[k].id, consumed))
    /\ [][/\ \A c \in Callers :
               (pc[c] = "rd_reset" /\ pc'[c] = "unlock") =>
                   /\ events' = Unread(events, cursor)
                   /\ Len(events') = Len(events) - cursor
          /\ consumed' # consumed =>
               ~InSeq(consumed'[Len(consumed')].id, consumed)
          /\ (rejected' # rejected /\ rejected' # NoEvent) =>
               ~InSeq(rejected'.id, consumed)
         ]_vars

\* a Read consumed one of two entries: one is gone, one is kept
C21_Witness ==
    \E c \in Callers :
        ReadDone(c) /\ ret[c].val = 1 /\ Len(events) = 1 /\ Len(consumed) = 1

\* C26: Cursor() returns 0; the cursor is 0 whenever the lock is free and is
\* non-zero only while a Read holds the lock.
C26_CursorIsZero ==
    /\ \A c \in Callers :
          (pc[c] = "unlock" /\ ret[c].op = "Cursor") => ret[c].val = 0
    /\ lock = NoOwner => cursor = 0
    /\ cursor # 0 =>
          \E c \in Callers : lock = c /\ pc[c] \in {"rd_loop", "rd_reset"}

\* Cursor() is returning after a Read consumed an entry and Close was called
C26_Witness ==
    /\ closeReturned
    /\ consumed # <<>>
    /\ \E c \in Callers : pc[c] = "unlock" /\ ret[c].op = "Cursor"

\* C27: Close changes neither events nor cursor; the entries appended before
\* Close stay in the buffer, in order, until a Read consumes them, and a
\* Read that starts after Close is presented with all of them.
C27_CloseKeepsBuffer ==
    /\ [](closeReturned =>
             /\ Len(All) >= lenAtClose
             /\ SubSeq(All, 1, lenAtClose) = SubSeq(appended, 1, lenAtClose))
    /\ [][/\ closeReturned' # closeReturned => UNCHANGED <<events, cursor, counter>>
          /\ \A c \in Callers :
               (closeReturned /\ pc[c] = "idle" /\ pc'[c] = "rd_loop") =>
                   scan'[c].start = SubSeq(appended, Len(consumed) + 1, Len(appended))
         ]_vars

\* a Read that started after Close consumed the two entries appended before it
C27_Witness ==
    /\ lenAtClose = 2
    /\ \E c \in Callers :
          ReadDone(c) /\ scan[c].afterClose /\ ret[c].val = 2

\* the entries the running Read of caller c has consumed
ConsumedBy(c) == SubSeq(consumed, Len(consumed) - read[c] + 1, Len(consumed))

\* C28: while a Read is between Lock and Unlock the buffer is the one it
\* found (what it consumed, then what is unread), the writer is not in
\* append and appends nothing; the Read returns at most the size of the
\* backlog it found, and the event the writer holds is appended afterwards.
C28_ReadAtomic ==
    /\ [](\A c \in Callers :
             pc[c] \in {"rd_loop", "rd_reset"} =>
                 /\ lock = c
                 /\ wpc # "append"
                 /\ ConsumedBy(c) \o Unread(events, cursor) = scan[c].start)
    /\ [](\A c \in Callers :
             ReadDone(c) => /\ ret[c].val <= Len(scan[c].start)
                            /\ Backlog = Len(scan[c].start) - ret[c].val)
    /\ [][(\E c \in Callers : pc[c] \in {"rd_loop", "rd_reset"} \/ ReadDone(c))
              => appended' = appended]_vars

\* a Read consumed an entry while the writer, holding the next event, waits
\* for the lock
C28_Witness ==
    /\ wpc = "lock"
    /\ ev # NoEvent
    /\ \E c \in Callers : ReadDone(c) /\ ret[c].val = 1 /\ Backlog = 0

\* ---- MockNetwork: nodes, connections, cycles -----------------------------

Min(a, b) == IF a < b THEN a ELSE b

\* C22: a Node/On event is posted for a node of the off-pool, which moves to
\* the on-set; a Node/Off event for a node of the on-set, which moves to the
\* off-pool; within one loop no node moves back, so none is chosen twice; a
\* loop that runs to its end has posted min(delta, size of the slice it
\* draws from when it started) events.
C22_NodeMoves ==
    [][/\ cnt'.nodeOn = cnt.nodeOn + 1 =>
            LET x == lastPost'.obj[1] IN
            /\ lastPost'.type = "Node" /\ lastPost'.action = "On"
            /\ x \in Picks(offNodes)
            /\ Size(onNodes') = Size(onNodes) + 1
            /\ Size(offNodes') = Size(offNodes) - 1
            /\ x # Other => /\ x \notin onNodes.known /\ x \in onNodes'.known
                            /\ x \notin offNodes'.known
            /\ x = Other => /\ onNodes'.others = onNodes.others + 1
                            /\ offNodes'.others = offNodes.others - 1
       /\ cnt'.nodeOff = cnt.nodeOff + 1 =>
            LET x == lastPost'.obj[1] IN
            /\ lastPost'.type = "Node" /\ lastPost'.action = "Off"
            /\ x \in Picks(onNodes)
            /\ Size(onNodes') = Size(onNodes) - 1
            /\ Size(offNodes') = Size(offNodes) + 1
            /\ x # Other => /\ x \notin offNodes.known /\ x \in offNodes'.known
                            /\ x \notin onNodes'.known
            /\ x = Other => /\ onNodes'.others = onNodes.others - 1
                            /\ offNodes'.others = offNodes.others + 1
       /\ (mpc = "nodeOn" /\ mpc' = "nodeOn") =>
            /\ onNodes.known \subseteq onNodes'.known
            /\ onNodes.others <= onNodes'.others
       /\ (mpc = "nodeOff" /\ mpc' = "nodeOff") =>
            /\ offNodes.known \subseteq offNodes'.known
            /\ offNodes.others <= offNodes'.others
       /\ (mpc = "nodeOn" /\ mpc' = "nodeOff") =>
            cnt.nodeOn = Min(ds[1].On, Size(offNodes) + cnt.nodeOn)
       /\ (mpc = "nodeOff" /\ mpc' = "connOn") =>
            cnt.nodeOff = Min(ds[1].Off, Size(onNodes) + cnt.nodeOff)
      ]_vars

\* a tick asked for a node to go on and one to go off; the off-pool was
\* empty, so no node went on, and a known node went off
C22_Witness ==
    /\ mpc = "connOn"
    /\ ds[1].On = 1 /\ ds[1].Off = 1
    /\ cnt.nodeOn = 0 /\ cnt.nodeOff = 1
    /\ lastPost.obj = <<1>>
    /\ offNodes = [known |-> {1}, others |-> 0]

\* C23 as stated: every cycle that starts runs on until the driver waits for
\* the next tick.
C23_CycleReturnsToWait == (mpc \in Loops) ~> (mpc = "wait")

\* C23, amended: one cycle per tick, the four loops in their order; nothing
\* is posted and no slice changes but inside a cycle; and every cycle ends,
\* back at the wait for the next tick or, when a Post fails, in the panic.
C23_CycleEnds ==
    /\ [][/\ mpc' # mpc =>
               <<mpc, mpc'>> \in {<<"wait", "nodeOn">>, <<"nodeOn", "nodeOff">>,
                                  <<"nodeOff", "connOn">>, <<"connOn", "connOff">>,
                                  <<"connOff", "wait">>}
                                 \cup {<<l, "panic">> : l \in Loops}
          /\ tick' # tick => tick' = tick + 1 /\ mpc = "connOff" /\ mpc' = "wait"
          /\ (mpc = "wait" /\ mpc' = "nodeOn") => ds' \in deltas(tick)
          /\ mpc \notin Loops =>
               /\ UNCHANGED <<onNodes, offNodes, onConns>>
               /\ \A k \in DOMAIN cnt : cnt'[k] <= cnt[k]
         ]_vars
    /\ (mpc \in Loops) ~> (mpc \in {"wait", "panic"})

\* a later cycle has put a connection on and the driver waits again
C23_Witness ==
    /\ mpc = "wait"
    /\ tick = 2
    /\ cnt.connOn = 1

\* C29: the on-set and the off-pool are disjoint and together hold the 100
\* ids of the pool, each once.
C29_NodesConserved ==
    /\ onNodes.known \cap offNodes.known = {}
    /\ onNodes.known \cup offNodes.known = KnownIds
    /\ onNodes.others >= 0 /\ offNodes.others >= 0
    /\ onNodes.others + offNodes.others = PoolSize - Cardinality(KnownIds)
    /\ Size(onNodes) + Size(offNodes) = PoolSize

\* after a later tick on which one node went on and a known node went off
C29_Witness ==
    /\ mpc = "wait"
    /\ tick = 2
    /\ cnt.nodeOn = 1 /\ cnt.nodeOff = 1
    /\ 1 \in offNodes.known /\ 2 \in onNodes.known

\* C30: both ends of every connection that is on are nodes that are on.
C30_ConnsBetweenOnNodes ==
    \A p \in BagToSet(onConns.known) :
        p[1] \in onNodes.known /\ p[2] \in onNodes.known

\* ---- rpcBackend properties ----------------------------------------------

\* caller c is between Lock and Unlock of backend.request
InRequest(c) == rq[c].pc \in {"assemble", "send", "recv", "unlock"}

\* C24: at most one request is between Lock and Unlock, and it holds the
\* lock; on the client a Recv comes right after the successful Send of the
\* same request, and a Send only after a failed Send or a Recv; a request
\* that is over, however it ended, has released the lock.
C24_RequestsSerialised ==
    /\ \A c \in Callers : InRequest(c) <=> rbLock = c
    /\ Cardinality({c \in Callers : InRequest(c)}) <= 1
    /\ \A k \in 1..Len(wire) :
          /\ wire[k].op = "Recv" =>
                /\ k > 1
                /\ wire[k - 1] = [op |-> "Send", by |-> wire[k].by,
                                  id |-> wire[k].id, ok |-> TRUE]
          /\ (wire[k].op = "Send" /\ k > 1) =>
                \/ wire[k - 1].op = "Recv"
                \/ wire[k - 1].op = "Send" /\ ~wire[k - 1].ok
    /\ (Len(wire) > 0 /\ wire[Len(wire)].op = "Send" /\ wire[Len(wire)].ok) =>
          rq[wire[Len(wire)].by].pc = "recv"
    /\ (\A c \in Callers : rq[c].pc \in {"idle", "lock", "decode"}) => rbLock = NoOwner

\* a request whose Send failed, one whose Recv failed and one answered with a
\* remote error have come and gone, and the lock is free
C24_Witness ==
    /\ rbLock = NoOwner
    /\ \E i, j, k \in 1..Len(wire) :
          /\ wire[i].op = "Send" /\ ~wire[i].ok
          /\ wire[j].op = "Recv" /\ ~wire[j].ok
          /\ wire[k].op = "Recv" /\ wire[k].ok
    /\ \E c, d \in Callers : c # d /\ rq[c].pc = "decode" /\ rq[d].pc = "lock"

\* the number of the k-th request of the run, counted from the first request
\* ever made on the backend
RECURSIVE Nth(_)
Nth(k) == IF k = 0 THEN rqbase ELSE CountInc(Nth(k - 1))

\* the ids of the Send calls, in order
RECURSIVE SentIds(_)
SentIds(w) ==
    IF w = <<>> THEN <<>>
    ELSE IF Head(w).op = "Send" THEN <<Head(w).id>> \o SentIds(Tail(w))
    ELSE SentIds(Tail(w))

====
